---- MODULE Spec2Model ----
(***************************************************************************)
(* CPU scheduling simulator: the four algorithms of scheduler.py (fcfs,    *)
(* sjf, priority_scheduling, round_robin) over Process objects of          *)
(* process.py.                                                             *)
(*                                                                         *)
(* Python objects have reference semantics, so Process objects live in a   *)
(* heap (address -> fields) and every list holds addresses.  The caller's  *)
(* list is `processes`; each call works in its own frame (its local        *)
(* variables) and one loop iteration of an algorithm is one action.        *)
(***************************************************************************)
EXTENDS Integers, Sequences, FiniteSets, TLC

\* ------------------------------------------------------------------ bounds
MaxProcs    == 3   \* processes in the caller's list
MaxArrival  == 2   \* arrival_time ranges over 0..MaxArrival
MaxBurst    == 3   \* burst_time ranges over 1..MaxBurst
MaxPriority == 1   \* priority ranges over 0..MaxPriority
MaxQuantum  == 2   \* time_quantum ranges over -1..MaxQuantum
MaxProcsRerun == 2 \* processes in the caller's list when runs are compared
MaxLen      == 5   \* the longest list a call is given (heap layout)
MaxProcsInvalid == 2 \* processes in a list that is not a valid input

\* ------------------------------------------------------- program constants
Idle  == 0         \* the "Idle" occupant of a Gantt entry; never a p_id
Unset == -1        \* start/completion/waiting/turnaround before they are set

RunIds == {1}      \* calls that can be in progress

VARIABLES
    processes,     \* the caller's list: a sequence of heap addresses
    heap,          \* address -> Process object (its fields)
    frame,         \* run id -> the local variables of that call
    result,        \* run id -> the tuple the call returned
    seen           \* history: the first tuple a call returned (SpecRerun)

vars == <<processes, heap, frame, result, seen>>

\* ------------------------------------------------------------ small helpers
Range(s) == {s[i] : i \in 1..Len(s)}

Min(S) == CHOOSE x \in S : \A y \in S : x <= y

MinOf(a, b) == IF a <= b THEN a ELSE b

RECURSIVE SumSeq(_)
SumSeq(s) == IF s = <<>> THEN 0 ELSE Head(s) + SumSeq(Tail(s))

\* ------------------------------------------------------------- process.py
\* Process.__init__
NewProcess(p_id, arrival_time, burst_time, priority) ==
    [p_id |-> p_id, arrival_time |-> arrival_time, burst_time |-> burst_time,
     priority |-> priority, remaining_burst_time |-> burst_time,
     start_time |-> Unset, completion_time |-> Unset,
     waiting_time |-> Unset, turnaround_time |-> Unset]

\* calculate_metrics measuring turnaround from start_time instead of arrival
calculate_metrics_from_start(p) ==
    IF p.completion_time # -1
    THEN LET tat == p.completion_time - p.start_time
             wt  == tat - p.burst_time
         IN [p EXCEPT !.turnaround_time = tat,
                      !.waiting_time = IF wt < 0 THEN 0 ELSE wt]
    ELSE [p EXCEPT !.waiting_time = -1, !.turnaround_time = -1]

\* Process.calculate_metrics, applied to the fields of one object
calculate_metrics(p) ==
    IF p.completion_time # -1
    THEN LET tat == p.completion_time - p.arrival_time
             wt  == tat - p.burst_time
         IN [p EXCEPT !.turnaround_time = tat,
                      !.waiting_time = IF wt < 0 THEN 0 ELSE wt]
    ELSE [p EXCEPT !.waiting_time = -1, !.turnaround_time = -1]

\* ----------------------------------------------------- Python list helpers
\* the insertion before the elements of equal key: equal keys come out in
\* reverse list order
RECURSIVE InsertByKey_beforeEqual(_, _, _)
InsertByKey_beforeEqual(s, a, key) ==
    IF s = <<>> THEN <<a>>
    ELSE IF key[Head(s)] < key[a]
         THEN <<Head(s)>> \o InsertByKey_beforeEqual(Tail(s), a, key)
         ELSE <<a>> \o s

\* Insert address a into the key-sorted list s after every element whose key
\* is <= key(a): the step of a stable sort.
RECURSIVE InsertByKey(_, _, _)
InsertByKey(s, a, key) ==
    IF s = <<>> THEN <<a>>
    ELSE IF key[Head(s)] <= key[a]
         THEN <<Head(s)>> \o InsertByKey(Tail(s), a, key)
         ELSE <<a>> \o s

\* sorted(s, key=...): stable, ascending.  key is a function address -> int.
RECURSIVE Sorted(_, _)
Sorted(s, key) ==
    IF s = <<>> THEN <<>>
    ELSE InsertByKey(Sorted(SubSeq(s, 1, Len(s) - 1), key), s[Len(s)], key)

\* [p for p in s if keep(p)], keep given as a set of addresses
RECURSIVE Filter(_, _)
Filter(s, keep) ==
    IF s = <<>> THEN <<>>
    ELSE IF Head(s) \in keep THEN <<Head(s)>> \o Filter(Tail(s), keep)
         ELSE Filter(Tail(s), keep)

\* the selected process left in the list
Remove_nothing(s, a) == s

\* list.remove(a): drops the first occurrence of a
RECURSIVE Remove(_, _)
Remove(s, a) ==
    IF s = <<>> THEN <<>>
    ELSE IF Head(s) = a THEN Tail(s)
         ELSE <<Head(s)>> \o Remove(Tail(s), a)

\* --------------------------------------------------------------- the heap
\* Addresses of the caller's objects are 1..MaxLen; the working copies of
\* run r are Base(r)+1 .. Base(r)+MaxLen.
Base(r) == r * (MaxLen + 1)

\* no copy: the working list holds the caller's own objects
DeepCopyList_alias(r, ps) == ps

\* copy.deepcopy(processes): a fresh object per element, same field values.
\* Returns the list of new addresses; DeepCopyHeap is the heap afterwards.
DeepCopyList(r, ps) == [i \in 1..Len(ps) |-> Base(r) + i]

DeepCopyHeap(r, ps, h) ==
    LET new == {Base(r) + i : i \in 1..Len(ps)}
    IN [a \in DOMAIN h \cup new |->
            IF a \in new THEN h[ps[a - Base(r)]] ELSE h[a]]

ArrivalKey(h)  == [a \in DOMAIN h |-> h[a].arrival_time]
\* the selection of sjf keyed by arrival_time: first come, first served
BurstKey_byArrival(h) == [a \in DOMAIN h |-> h[a].arrival_time]

BurstKey(h)    == [a \in DOMAIN h |-> h[a].burst_time]
PriorityKey(h) == [a \in DOMAIN h |-> h[a].priority]
\* the returned list keyed by arrival_time instead of p_id
IdKey_byArrival(h) == [a \in DOMAIN h |-> h[a].arrival_time]

IdKey(h)       == [a \in DOMAIN h |-> h[a].p_id]

\* ------------------------------------------------------------------ frames
NoEntry == <<Idle, -1, -1>>     \* last_gantt_entry = None

IdleFrame ==
    [pc |-> "idle", alg |-> "none", time_quantum |-> 0,
     process_list |-> <<>>, remaining |-> <<>>, completed_processes |-> <<>>,
     gantt_chart |-> <<>>, current_time |-> 0,
     total_waiting_time |-> 0, total_turnaround_time |-> 0, n |-> 0,
     ready_queue |-> <<>>, process_idx |-> 0,
     completed_processes_dict |-> {},
     last_gantt_entry |-> NoEntry, broke |-> FALSE]

NoResult ==
    [gantt_chart |-> <<>>, avg_waiting_time |-> [num |-> 0, den |-> 1],
     avg_turnaround_time |-> [num |-> 0, den |-> 1],
     completed_processes |-> <<>>]

\* a / b of two ints, kept exact
Div(a, b) == [num |-> a, den |-> b]

\* ------------------------------------------------------ Gantt chart edits
\* an Idle entry that ends where it starts
AppendIdle_empty(g, t, nat) == Append(g, <<Idle, t, t>>)

\* the clock advanced over a gap without an Idle entry
AppendIdle_skipped(g, t, nat) == g

\* gantt_chart.append(("Idle", current_time, next_arrival_time)):
\* fcfs line 36, sjf line 100, priority_scheduling line 181
AppendIdle(g, t, nat) == Append(g, <<Idle, t, nat>>)

\* gantt_chart.append((proc.p_id, execution_start, proc.completion_time)):
\* fcfs line 48, sjf line 124, priority_scheduling line 204
AppendRun(g, pid, t0, t1) == Append(g, <<pid, t0, t1>>)

\* a merge that overwrites the previous entry instead of extending it
AppendSlice_overwrite(g, last, pid, t0, t1) ==
    IF last # NoEntry /\ last[1] = pid /\ last[3] = t0
    THEN [g EXCEPT ![Len(g)] = <<pid, t0, t1>>]
    ELSE Append(g, <<pid, t0, t1>>)

\* no merge: every slice is appended
AppendSlice_nomerge(g, last, pid, t0, t1) == Append(g, <<pid, t0, t1>>)

\* round_robin lines 301-304: merge with the previous entry or append
AppendSlice(g, last, pid, t0, t1) ==
    IF last # NoEntry /\ last[1] = pid /\ last[3] = t0
    THEN [g EXCEPT ![Len(g)] = <<pid, last[2], t1>>]
    ELSE Append(g, <<pid, t0, t1>>)

\* start_time overwritten at every dispatch
StartTime_latest(p, t) == t

\* start_time never recorded
StartTime_never(p, t) == p.start_time

\* "if proc.start_time == -1: proc.start_time = current_time":
\* sjf lines 115-116, priority_scheduling 195-196, round_robin 289-290
StartTime(p, t) == IF p.start_time = -1 THEN t ELSE p.start_time

\* the guard with < for <=: a quantum of 0 is let through
QuantumRejected_negative(time_quantum) == time_quantum < 0

\* round_robin line 243
QuantumRejected(time_quantum) == time_quantum <= 0

\* the remaining burst ignored: every slice is a whole quantum
TimeSlice_quantum(time_quantum, remaining_burst_time) == time_quantum

\* the quantum ignored: the process runs its whole remaining burst
TimeSlice_whole(time_quantum, remaining_burst_time) == remaining_burst_time

\* round_robin line 293
TimeSlice(time_quantum, remaining_burst_time) ==
    MinOf(time_quantum, remaining_burst_time)

Callable(r) == frame[r].pc = "idle"

\* ------------------------------------------------------------------- fcfs
\* fcfs, lines 23-28: the working copy and the locals
CallFcfs(r) ==
    /\ Callable(r)
    /\ \E h \in {DeepCopyHeap(r, processes, heap)} :
       \E pq \in {Sorted(DeepCopyList(r, processes), ArrivalKey(h))} :
          /\ heap' = h
          /\ frame' = [frame EXCEPT ![r] =
                [IdleFrame EXCEPT !.pc = "fcfs", !.alg = "fcfs",
                                  !.process_list = pq]]
    /\ result' = [result EXCEPT ![r] = NoResult]
    /\ UNCHANGED <<processes, seen>>

\* In the actions a local value is bound with \E x \in {e} where a LET
\* would do: TLC then evaluates e once.

\* fcfs, lines 30-55: one iteration of the while loop
FcfsStep(r) ==
    /\ frame[r].pc = "fcfs"
    /\ frame[r].process_list # <<>>
    /\ \E f \in {frame[r]} :
       \E proc \in {Head(f.process_list)} :
       \E idle \in {f.current_time < heap[proc].arrival_time} :
       \E t0 \in {IF idle THEN heap[proc].arrival_time ELSE f.current_time} :
       \E g0 \in {IF idle
                  THEN AppendIdle(f.gantt_chart, f.current_time,
                                  heap[proc].arrival_time)
                  ELSE f.gantt_chart} :
       \E t1 \in {t0 + heap[proc].burst_time} :
       \E p1 \in {calculate_metrics([heap[proc] EXCEPT
                        !.start_time = t0, !.completion_time = t1])} :
          /\ heap' = [heap EXCEPT ![proc] = p1]
          /\ frame' = [frame EXCEPT ![r] =
                [f EXCEPT !.process_list = Tail(f.process_list),
                          !.current_time = t1,
                          !.gantt_chart = AppendRun(g0, p1.p_id, t0, t1),
                          !.total_waiting_time = @ + p1.waiting_time,
                          !.total_turnaround_time = @ + p1.turnaround_time,
                          !.completed_processes = Append(@, proc)]]
    /\ UNCHANGED <<processes, result, seen>>

\* lines 57-66 (and the same tail of sjf and priority_scheduling)
ReturnTuple(f, h) ==
    IF f.completed_processes = <<>>
    THEN NoResult
    ELSE [gantt_chart |-> f.gantt_chart,
          avg_waiting_time |->
              Div(f.total_waiting_time, Len(f.completed_processes)),
          avg_turnaround_time |->
              Div(f.total_turnaround_time, Len(f.completed_processes)),
          completed_processes |-> Sorted(f.completed_processes, IdKey(h))]

Returned(f) == [IdleFrame EXCEPT !.pc = "returned", !.alg = f.alg,
                                 !.time_quantum = f.time_quantum]

FcfsReturn(r) ==
    LET f == frame[r] IN
    /\ f.pc = "fcfs"
    /\ f.process_list = <<>>
    /\ result' = [result EXCEPT ![r] = ReturnTuple(f, heap)]
    /\ frame' = [frame EXCEPT ![r] = Returned(f)]
    /\ UNCHANGED <<processes, heap, seen>>

\* ------------------------------------------- sjf and priority_scheduling
\* sjf lines 83-90, priority_scheduling lines 164-171
CallSelect(r, alg) ==
    /\ Callable(r)
    /\ \E h \in {DeepCopyHeap(r, processes, heap)} :
       \E pl \in {Sorted(DeepCopyList(r, processes), ArrivalKey(h))} :
          /\ heap' = h
          /\ frame' = [frame EXCEPT ![r] =
                [IdleFrame EXCEPT !.pc = alg, !.alg = alg,
                                  !.process_list = pl, !.n = Len(pl),
                                  !.remaining = pl]]
    /\ result' = [result EXCEPT ![r] = NoResult]
    /\ UNCHANGED <<processes, seen>>

\* [p for p in remaining_processes if p.arrival_time <= current_time]
ReadyList(rem, h, t) == Filter(rem, {a \in Range(rem) : h[a].arrival_time <= t})

\* sjf lines 114-131, priority_scheduling lines 194-211: proc runs from t0
\* to completion; g0 is the chart so far
SelectRun(r, f, proc, t0, g0) ==
    \E st \in {StartTime(heap[proc], t0)} :
    \E t1 \in {t0 + heap[proc].burst_time} :
    \E p1 \in {calculate_metrics([heap[proc] EXCEPT
                     !.start_time = st, !.completion_time = t1])} :
       /\ heap' = [heap EXCEPT ![proc] = p1]
       /\ frame' = [frame EXCEPT ![r] =
            [f EXCEPT !.remaining = Remove(f.remaining, proc),
                      !.current_time = t1,
                      !.gantt_chart = AppendRun(g0, p1.p_id, t0, t1),
                      !.total_waiting_time = @ + p1.waiting_time,
                      !.total_turnaround_time = @ + p1.turnaround_time,
                      !.completed_processes = Append(@, proc)]]

\* sjf lines 92-134, priority_scheduling lines 173-213: one iteration of the
\* while loop; key is the sort key of the selection (lines 108, 188).
SelectStep(r, alg, key) ==
    /\ frame[r].pc = alg
    /\ ~frame[r].broke
    /\ Len(frame[r].completed_processes) < frame[r].n
    /\ \E f \in {frame[r]} :
       \E rq0 \in {ReadyList(f.remaining, heap, f.current_time)} :
          IF rq0 = <<>> /\ f.remaining = <<>>
          THEN \* min() of an empty sequence raises ValueError
               /\ frame' = [frame EXCEPT ![r] =
                     [IdleFrame EXCEPT !.pc = "raised", !.alg = f.alg]]
               /\ UNCHANGED heap
          ELSE
            \E nat \in {IF rq0 = <<>>
                        THEN Min({heap[a].arrival_time :
                                     a \in Range(f.remaining)})
                        ELSE f.current_time} :
            \E idle \in {rq0 = <<>> /\ f.current_time < nat} :
            \E t0 \in {IF idle THEN nat ELSE f.current_time} :
            \E g0 \in {IF idle
                       THEN AppendIdle(f.gantt_chart, f.current_time, nat)
                       ELSE f.gantt_chart} :
            \E rq \in {IF rq0 = <<>>
                       THEN ReadyList(f.remaining, heap, t0) ELSE rq0} :
               IF rq # <<>>
               THEN SelectRun(r, f, Head(Sorted(rq, key)), t0, g0)
               ELSE /\ frame' = [frame EXCEPT ![r] =
                          [f EXCEPT !.current_time = t0, !.gantt_chart = g0,
                                    !.broke = (f.remaining = <<>>)]]
                    /\ UNCHANGED heap
    /\ UNCHANGED <<processes, result, seen>>

\* lines 137-146, 216-225
SelectReturn(r, alg) ==
    LET f == frame[r] IN
    /\ f.pc = alg
    /\ (f.broke \/ Len(f.completed_processes) >= f.n)
    /\ result' = [result EXCEPT ![r] = ReturnTuple(f, heap)]
    /\ frame' = [frame EXCEPT ![r] = Returned(f)]
    /\ UNCHANGED <<processes, heap, seen>>

CallSjf(r) == CallSelect(r, "sjf")

SjfStep(r) == SelectStep(r, "sjf", BurstKey(heap))

SjfReturn(r) == SelectReturn(r, "sjf")

CallPriority(r) == CallSelect(r, "priority")

PriorityStep(r) == SelectStep(r, "priority", PriorityKey(heap))

PriorityReturn(r) == SelectReturn(r, "priority")

\* ------------------------------------------------------------ round_robin
\* lines 243-257
CallRoundRobin(r, time_quantum) ==
    /\ Callable(r)
    /\ IF QuantumRejected(time_quantum)
       THEN \* raise ValueError("Time quantum must be positive.")
            /\ frame' = [frame EXCEPT ![r] =
                  [IdleFrame EXCEPT !.pc = "raised", !.alg = "rr",
                                    !.time_quantum = time_quantum]]
            /\ heap' = heap
       ELSE \E h \in {DeepCopyHeap(r, processes, heap)} :
            \E pl \in {Sorted(DeepCopyList(r, processes), ArrivalKey(h))} :
               /\ heap' = h
               /\ frame' = [frame EXCEPT ![r] =
                     [IdleFrame EXCEPT !.pc = "rr", !.alg = "rr",
                                       !.time_quantum = time_quantum,
                                       !.process_list = pl, !.n = Len(pl)]]
    /\ result' = [result EXCEPT ![r] = NoResult]
    /\ UNCHANGED <<processes, seen>>

\* every process admitted at once, arrived or not
ArrivedIdx_all(pl, h, idx, t) == Len(pl)

\* The arrival loops of lines 261-264 and 309-312: the cursor after them
RECURSIVE ArrivedIdx(_, _, _, _)
ArrivedIdx(pl, h, idx, t) ==
    IF idx < Len(pl) /\ h[pl[idx + 1]].arrival_time <= t
    THEN ArrivedIdx(pl, h, idx + 1, t)
    ELSE idx

\* ... and the heap after them: remaining_burst_time = burst_time for each
\* process the cursor passed
Admit(pl, h, idx, idx2) ==
    [a \in DOMAIN h |->
        IF \E i \in (idx + 1)..idx2 : pl[i] = a
        THEN [h[a] EXCEPT !.remaining_burst_time = h[a].burst_time]
        ELSE h[a]]

\* completed_processes_dict: p_id -> address, kept as a set of pairs
DictPut(d, k, v) == {e \in d : e[1] # k} \cup {<<k, v>>}

DictValues(d) == {e[2] : e \in d}

\* lines 266-283: the ready queue is empty after the admissions
RRIdle(r, f, idx1, h1) ==
    IF idx1 < f.n
    THEN \E nat \in {h1[f.process_list[idx1 + 1]].arrival_time} :
         \E last \in {f.last_gantt_entry} :
         \E gap \in {f.current_time < nat} :
         \E g1 \in {IF ~gap THEN f.gantt_chart
                    ELSE IF last = NoEntry \/ last[1] # Idle
                    THEN Append(f.gantt_chart, <<Idle, f.current_time, nat>>)
                    ELSE [f.gantt_chart EXCEPT
                            ![Len(f.gantt_chart)] = <<Idle, last[2], nat>>]} :
            /\ heap' = h1
            /\ frame' = [frame EXCEPT ![r] =
                 [f EXCEPT !.process_idx = idx1,
                           !.gantt_chart = g1,
                           !.last_gantt_entry =
                               IF gap THEN g1[Len(g1)] ELSE last,
                           !.current_time =
                               IF gap THEN nat ELSE f.current_time]]
    ELSE /\ heap' = h1
         /\ frame' = [frame EXCEPT ![r] =
                 [f EXCEPT !.process_idx = idx1, !.broke = TRUE]]

\* the preempted process put back before the processes that arrived during
\* its slice
Requeue_preemptedFirst(rq, arrived, proc, done) ==
    IF done THEN rq \o arrived ELSE Append(rq, proc) \o arrived

\* the preempted process put back at the front of the queue
Requeue_front(rq, arrived, proc, done) ==
    IF done THEN rq \o arrived ELSE <<proc>> \o rq \o arrived

\* the process just run put back even when it has completed
Requeue_always(rq, arrived, proc, done) == Append(rq \o arrived, proc)

\* lines 309-312, then 322-324: the processes that arrived during the slice
\* are appended, and after them the process just run unless it completed
Requeue(rq, arrived, proc, done) ==
    IF done THEN rq \o arrived ELSE Append(rq \o arrived, proc)

\* lines 285-324: the head of the ready queue runs one slice
RRRun(r, f, idx1, h1, rq1) ==
    \E pl \in {f.process_list} :
    \E proc \in {Head(rq1)} :
    \E pid \in {h1[proc].p_id} :
    \E st \in {StartTime(h1[proc], f.current_time)} :
    \E slice \in {TimeSlice(f.time_quantum, h1[proc].remaining_burst_time)} :
    \E t1 \in {f.current_time + slice} :
    \E g1 \in {AppendSlice(f.gantt_chart, f.last_gantt_entry, pid,
                           f.current_time, t1)} :
    \E h2 \in {[h1 EXCEPT ![proc] =
                  [@ EXCEPT !.start_time = st,
                            !.remaining_burst_time = @ - slice]]} :
    \E idx2 \in {ArrivedIdx(pl, h2, idx1, t1)} :
    \E h3 \in {Admit(pl, h2, idx1, idx2)} :
    \E done \in {h3[proc].remaining_burst_time = 0} :
    \E rq2 \in {Requeue(Tail(rq1), SubSeq(pl, idx1 + 1, idx2), proc, done)} :
    \E p1 \in {calculate_metrics([h3[proc] EXCEPT !.completion_time = t1])} :
       /\ heap' = IF done THEN [h3 EXCEPT ![proc] = p1] ELSE h3
       /\ frame' = [frame EXCEPT ![r] =
            [f EXCEPT
               !.process_idx = idx2,
               !.current_time = t1,
               !.gantt_chart = g1,
               !.last_gantt_entry = g1[Len(g1)],
               !.ready_queue = rq2,
               !.total_waiting_time =
                   IF done THEN @ + p1.waiting_time ELSE @,
               !.total_turnaround_time =
                   IF done THEN @ + p1.turnaround_time ELSE @,
               !.completed_processes_dict =
                   IF done THEN DictPut(@, pid, proc) ELSE @]]

\* lines 259-324: one iteration of the while loop
RRStep(r) ==
    /\ frame[r].pc = "rr"
    /\ ~frame[r].broke
    /\ Cardinality(frame[r].completed_processes_dict) < frame[r].n
    /\ \E f \in {frame[r]} :
       \* lines 261-264
       \E idx1 \in {ArrivedIdx(f.process_list, heap, f.process_idx,
                               f.current_time)} :
       \E h1 \in {Admit(f.process_list, heap, f.process_idx, idx1)} :
       \E rq1 \in {f.ready_queue
                      \o SubSeq(f.process_list, f.process_idx + 1, idx1)} :
          IF rq1 = <<>>
          THEN RRIdle(r, f, idx1, h1)
          ELSE RRRun(r, f, idx1, h1, rq1)
    /\ UNCHANGED <<processes, result, seen>>

\* sorted(list(completed_processes_dict.values()), key=lambda p: p.p_id):
\* the dict's values in insertion order are already keyed by distinct p_id
RECURSIVE SetToSortedSeq(_, _)
SetToSortedSeq(S, key) ==
    IF S = {} THEN <<>>
    ELSE LET a == CHOOSE x \in S : \A y \in S : key[x] <= key[y]
         IN <<a>> \o SetToSortedSeq(S \ {a}, key)

\* lines 327-336
RRReturn(r) ==
    LET f == frame[r] IN
    /\ f.pc = "rr"
    /\ (f.broke \/ Cardinality(f.completed_processes_dict) >= f.n)
    /\ result' = [result EXCEPT ![r] =
          IF f.completed_processes_dict = {}
          THEN NoResult
          ELSE [gantt_chart |-> f.gantt_chart,
                avg_waiting_time |-> Div(f.total_waiting_time, f.n),
                avg_turnaround_time |-> Div(f.total_turnaround_time, f.n),
                completed_processes |->
                    SetToSortedSeq(DictValues(f.completed_processes_dict),
                                   IdKey(heap))]]
    /\ frame' = [frame EXCEPT ![r] = Returned(f)]
    /\ UNCHANGED <<processes, heap, seen>>

\* ----------------------------------------------------------- the caller
\* What a call returned, by value: the tuple with each Process object's fields
ResultValue(r) ==
    [gantt_chart |-> result[r].gantt_chart,
     avg_waiting_time |-> result[r].avg_waiting_time,
     avg_turnaround_time |-> result[r].avg_turnaround_time,
     completed_processes |->
        [i \in 1..Len(result[r].completed_processes) |->
            heap[result[r].completed_processes[i]]]]

\* the same algorithm with the same quantum
SameCall(a, b) == a.alg = b.alg /\ a.time_quantum = b.time_quantum

\* The caller drops what the call returned (SchedulerGUI.clear_results before
\* the next run): the working copies are garbage.  The history keeps the
\* first tuple returned and whether a different call returned after it.
Discard(r) ==
    /\ frame[r].pc \in {"returned", "raised"}
    /\ seen' = IF frame[r].pc # "returned" THEN seen
               ELSE IF seen = <<>>
               THEN <<[alg |-> frame[r].alg,
                       time_quantum |-> frame[r].time_quantum,
                       value |-> ResultValue(r), others |-> FALSE]>>
               ELSE IF SameCall(seen[1], frame[r]) THEN seen
               ELSE <<[seen[1] EXCEPT !.others = TRUE]>>
    /\ frame' = [frame EXCEPT ![r] = IdleFrame]
    /\ result' = [result EXCEPT ![r] = NoResult]
    /\ heap' = [a \in {b \in DOMAIN heap :
                          b <= MaxLen \/ (b \div (MaxLen + 1)) # r}
                  |-> heap[a]]
    /\ UNCHANGED processes

\* ------------------------------------------------------------------ inputs
ProcessInputs ==
    [arrival_time : 0..MaxArrival, burst_time : 1..MaxBurst,
     priority : 0..MaxPriority]

\* Valid input lists of length k with ids 1..k: in ascending id order, as
\* SchedulerGUI.add_process builds them, or in descending id order.
IdOrders(k) == {[i \in 1..k |-> i], [i \in 1..k |-> k + 1 - i]}

InitWith(maxn) ==
    /\ \E k \in 1..maxn : \E ps \in [1..k -> ProcessInputs] :
       \E ids \in IdOrders(k) :
          /\ processes = [i \in 1..k |-> i]
          /\ heap = [i \in 1..k |-> NewProcess(ids[i], ps[i].arrival_time,
                                               ps[i].burst_time, ps[i].priority)]
    /\ frame = [r \in RunIds |-> IdleFrame]
    /\ result = [r \in RunIds |-> NoResult]
    /\ seen = <<>>

Init == InitWith(MaxProcs)

Quanta == -1..MaxQuantum

Next ==
    \E r \in RunIds :
        \/ CallFcfs(r)
        \/ FcfsStep(r)
        \/ FcfsReturn(r)
        \/ CallSjf(r)
        \/ SjfStep(r)
        \/ SjfReturn(r)
        \/ CallPriority(r)
        \/ PriorityStep(r)
        \/ PriorityReturn(r)
        \/ \E q \in Quanta : CallRoundRobin(r, q)
        \/ RRStep(r)
        \/ RRReturn(r)

\* One call on one input list.
Spec == Init /\ [][Next]_vars

\* One call on a list built through the GUI, each step taken in turn: the
\* engine is single-threaded and synchronous, so a started call always takes
\* its next step.
InitLive ==
    /\ processes = <<>>
    /\ heap = <<>>
    /\ frame = [r \in RunIds |-> IdleFrame]
    /\ result = [r \in RunIds |-> NoResult]
    /\ seen = <<>>

\* SchedulerGUI.add_process: the next id, the fields as entered
AddProcess ==
    /\ \A r \in RunIds : frame[r].pc = "idle"
    /\ Len(processes) < MaxProcs
    /\ \E p \in ProcessInputs :
          /\ ~(p.arrival_time < 0 \/ p.burst_time <= 0 \/ p.priority < 0)
          /\ processes' = Append(processes, Len(processes) + 1)
          /\ heap' = Append(heap, NewProcess(Len(processes) + 1,
                         p.arrival_time, p.burst_time, p.priority))
    /\ UNCHANGED <<frame, result, seen>>

\* SchedulerGUI.run_simulation: nothing runs on an empty list, and
\* round_robin is not called with a quantum <= 0
RunFcfs(r) == processes # <<>> /\ CallFcfs(r)

RunSjf(r) == processes # <<>> /\ CallSjf(r)

RunPriority(r) == processes # <<>> /\ CallPriority(r)

RunRoundRobin(r, quantum) ==
    processes # <<>> /\ ~(quantum <= 0) /\ CallRoundRobin(r, quantum)

NextLive ==
    \/ AddProcess
    \/ \E r \in RunIds :
        \/ RunFcfs(r)
        \/ FcfsStep(r)
        \/ FcfsReturn(r)
        \/ RunSjf(r)
        \/ SjfStep(r)
        \/ SjfReturn(r)
        \/ RunPriority(r)
        \/ PriorityStep(r)
        \/ PriorityReturn(r)
        \/ \E q \in Quanta : RunRoundRobin(r, q)
        \/ RRStep(r)
        \/ RRReturn(r)

SpecLive == InitLive /\ [][NextLive]_vars /\ WF_vars(NextLive)

\* Any number of calls, one after the other, on one input list.
InitRerun == InitWith(MaxProcsRerun)

NextRerun == Next \/ \E r \in RunIds : Discard(r)

SpecRerun == InitRerun /\ [][NextRerun]_vars

\* One call on a list that is not a valid input: fcfs, sjf,
\* priority_scheduling and round_robin take any list of Process objects, and
\* Process.__init__ takes any field values.
AnyProcess ==
    [p_id : 1..MaxProcsInvalid, arrival_time : -1..0, burst_time : -1..1,
     priority : -1..0]

\* the empty list, a repeated p_id, an arrival or priority below 0, or a
\* burst of 0 or less
InvalidInput(ps) ==
    \/ ps = <<>>
    \/ \E i, j \in 1..Len(ps) : i # j /\ ps[i].p_id = ps[j].p_id
    \/ \E i \in 1..Len(ps) :
          ps[i].arrival_time < 0 \/ ps[i].priority < 0 \/ ps[i].burst_time <= 0

InitInvalid ==
    /\ \E k \in 0..MaxProcsInvalid : \E ps \in [1..k -> AnyProcess] :
          /\ InvalidInput(ps)
          /\ processes = [i \in 1..k |-> i]
          /\ heap = [i \in 1..k |->
                        NewProcess(ps[i].p_id, ps[i].arrival_time,
                                   ps[i].burst_time, ps[i].priority)]
    /\ frame = [r \in RunIds |-> IdleFrame]
    /\ result = [r \in RunIds |-> NoResult]
    /\ seen = <<>>

SpecInvalid == InitInvalid /\ [][Next]_vars

\* One call on the list of a worked scenario.  A scenario gives
\* <<arrival_time, burst_time, priority>> of P1, P2, ... in list order;
\* priority is 0 where the scenario names none (the default of
\* Process.__init__).
ScenarioA == << <<0, 5, 0>>, <<1, 3, 0>> >>

ScenarioB == << <<0, 8, 0>>, <<1, 4, 0>>, <<2, 9, 0>>, <<3, 5, 0>> >>

ScenarioC ==
    << <<0, 10, 3>>, <<0, 1, 1>>, <<0, 2, 4>>, <<0, 1, 5>>, <<0, 5, 2>> >>

ScenarioD == << <<0, 5, 0>>, <<1, 3, 0>>, <<2, 1, 0>> >>

Scenarios == {ScenarioA, ScenarioB, ScenarioC, ScenarioD}

\* the Process objects of scenario sc
ScenarioProcesses(sc) ==
    [i \in 1..Len(sc) |-> NewProcess(i, sc[i][1], sc[i][2], sc[i][3])]

InitScenarios ==
    /\ \E sc \in Scenarios :
          /\ processes = [i \in 1..Len(sc) |-> i]
          /\ heap = ScenarioProcesses(sc)
    /\ frame = [r \in RunIds |-> IdleFrame]
    /\ result = [r \in RunIds |-> NoResult]
    /\ seen = <<>>

SpecScenarios == InitScenarios /\ [][Next]_vars

\* Two calls in two threads of one caller, over one input list.  Run 1 first
\* makes a call alone and the caller keeps what it returned (the history);
\* then run 1 makes the same call again while run 2 makes any call, their
\* loop iterations interleaved in any order.  An iteration touches only the
\* locals and the working copies of its own call, so interleaving whole
\* iterations loses nothing that a finer thread switch could show.
ConcRunIds == {1, 2}

InitConc ==
    /\ \E k \in 1..MaxProcsRerun : \E ps \in [1..k -> ProcessInputs] :
       \E ids \in IdOrders(k) :
          /\ processes = [i \in 1..k |-> i]
          /\ heap = [i \in 1..k |-> NewProcess(ids[i], ps[i].arrival_time,
                                               ps[i].burst_time, ps[i].priority)]
    /\ frame = [r \in ConcRunIds |-> IdleFrame]
    /\ result = [r \in ConcRunIds |-> NoResult]
    /\ seen = <<>>

\* which call run r may make now
MayCall(r, alg, time_quantum) ==
    IF seen = <<>>
    THEN r = 1
    ELSE r = 1 => SameCall(seen[1], [alg |-> alg,
                                     time_quantum |-> time_quantum])

\* the caller keeps the first result of run 1
KeepFirst(r) == r = 1 /\ seen = <<>> /\ Discard(r)

NextConc ==
    \E r \in ConcRunIds :
        \/ MayCall(r, "fcfs", 0) /\ CallFcfs(r)
        \/ FcfsStep(r)
        \/ FcfsReturn(r)
        \/ MayCall(r, "sjf", 0) /\ CallSjf(r)
        \/ SjfStep(r)
        \/ SjfReturn(r)
        \/ MayCall(r, "priority", 0) /\ CallPriority(r)
        \/ PriorityStep(r)
        \/ PriorityReturn(r)
        \/ \E q \in Quanta : MayCall(r, "rr", q) /\ CallRoundRobin(r, q)
        \/ RRStep(r)
        \/ RRReturn(r)
        \/ KeepFirst(r)

SpecConc == InitConc /\ [][NextConc]_vars

\* ================================================================= claims
Done(r) == frame[r].pc = "returned"

Timeline(r) == result[r].gantt_chart

\* the returned Process objects, by value
Out(r) == ResultValue(r).completed_processes

\* the caller's Process objects, by value
Input == [i \in 1..Len(processes) |-> heap[processes[i]]]

Max(S) == CHOOSE x \in S : \A y \in S : y <= x

Dur(e) == e[3] - e[2]

\* the entries of timeline g occupied by who, in order
RECURSIVE Segments(_, _)
Segments(g, who) ==
    IF g = <<>> THEN <<>>
    ELSE IF Head(g)[1] = who THEN <<Head(g)>> \o Segments(Tail(g), who)
         ELSE Segments(Tail(g), who)

RECURSIVE TotalDur(_)
TotalDur(g) == IF g = <<>> THEN 0 ELSE Dur(Head(g)) + TotalDur(Tail(g))

RECURSIVE NonIdle(_)
NonIdle(g) ==
    IF g = <<>> THEN <<>>
    ELSE IF Head(g)[1] # Idle THEN <<Head(g)>> \o NonIdle(Tail(g))
         ELSE NonIdle(Tail(g))

NonPreemptive(r) == frame[r].alg \in {"fcfs", "sjf", "priority"}

\* C1: in the result of every algorithm, each process has
\* turnaround_time = completion_time - arrival_time and
\* waiting_time = max(0, turnaround_time - burst_time).
C1_Metrics ==
    \A r \in RunIds : Done(r) =>
        \A i \in 1..Len(Out(r)) :
            LET p == Out(r)[i] IN
            /\ p.turnaround_time = p.completion_time - p.arrival_time
            /\ p.waiting_time = Max({0, p.turnaround_time - p.burst_time})

\* a returned result in which some process waited
C1_Witness ==
    \E r \in RunIds :
        /\ Done(r)
        /\ Len(Out(r)) >= 2
        /\ \E i \in 1..Len(Out(r)) :
              Out(r)[i].waiting_time > 0 /\ Out(r)[i].arrival_time > 0

\* C2: the returned timeline is contiguous and non-overlapping: start < end
\* in every entry, each entry starts where the previous one ends, the first
\* starts at the earliest arrival time or at 0, and the last ends at the
\* largest completion_time.
C2_Contiguous ==
    \A r \in RunIds : Done(r) =>
        LET g == Timeline(r) IN
        /\ g # <<>>
        /\ \A i \in 1..Len(g) : g[i][2] < g[i][3]
        /\ \A i \in 2..Len(g) : g[i][2] = g[i - 1][3]
        /\ g[1][2] \in {0, Min({Input[i].arrival_time : i \in 1..Len(Input)})}
        /\ g[Len(g)][3] =
              Max({Out(r)[i].completion_time : i \in 1..Len(Out(r))})

\* a returned timeline with an Idle gap between two runs
C2_Witness ==
    \E r \in RunIds :
        /\ Done(r)
        /\ \E i \in 2..(Len(Timeline(r)) - 1) : Timeline(r)[i][1] = Idle

\* C3: the non-Idle entries of the returned timeline last as long as all
\* burst times together, and the entries of each process as long as its
\* burst_time.
C3_BurstAccounted ==
    \A r \in RunIds : Done(r) =>
        /\ TotalDur(NonIdle(Timeline(r))) =
              SumSeq([i \in 1..Len(Input) |-> Input[i].burst_time])
        /\ \A i \in 1..Len(Input) :
              TotalDur(Segments(Timeline(r), Input[i].p_id)) =
                  Input[i].burst_time

\* a round_robin result in which a process ran in several separate entries
C3_Witness ==
    \E r \in RunIds :
        /\ Done(r)
        /\ frame[r].alg = "rr"
        /\ \E i \in 1..Len(Input) :
              Len(Segments(Timeline(r), Input[i].p_id)) >= 2

\* C4: no two consecutive entries of the returned timeline have the same
\* occupant (a process id or Idle).
C4_NoAdjacentSame ==
    \A r \in RunIds : Done(r) =>
        \A i \in 2..Len(Timeline(r)) :
            Timeline(r)[i][1] # Timeline(r)[i - 1][1]

\* a round_robin result holding an entry longer than the quantum: slices of
\* one process were merged
C4_Witness ==
    \E r \in RunIds :
        /\ Done(r)
        /\ frame[r].alg = "rr"
        /\ Len(Timeline(r)) >= 2
        /\ \E i \in 1..Len(Timeline(r)) :
              /\ Timeline(r)[i][1] # Idle
              /\ Dur(Timeline(r)[i]) > frame[r].time_quantum

\* C5: under fcfs, sjf and priority_scheduling each process occupies exactly
\* one timeline entry, from its start_time to its completion_time, of length
\* burst_time.
C5_OneEntryPerProcess ==
    \A r \in RunIds : (Done(r) /\ NonPreemptive(r)) =>
        /\ Len(Out(r)) = Len(Input)
        /\ \A i \in 1..Len(Out(r)) :
              LET p == Out(r)[i] IN
              /\ Segments(Timeline(r), p.p_id) =
                    <<<<p.p_id, p.start_time, p.completion_time>>>>
              /\ p.completion_time - p.start_time = p.burst_time

\* an sjf result where a shorter job, and a priority_scheduling result where
\* a more urgent one, arrived while another process was running
C5_Witness ==
    \E r \in RunIds :
        /\ Done(r)
        /\ \E i, j \in 1..Len(Out(r)) :
              LET p == Out(r)[i]
                  q == Out(r)[j]
              IN /\ p.start_time < q.arrival_time
                 /\ q.arrival_time < p.completion_time
                 /\ \/ frame[r].alg = "sjf" /\ q.burst_time < p.burst_time
                    \/ frame[r].alg = "priority" /\ q.priority < p.priority

RoundRobin(r) == frame[r].alg = "rr"

\* length of the last slice of a burst under quantum q
LastSlice(burst, q) == IF burst % q = 0 THEN q ELSE burst % q

\* C6 (as stated): under round_robin every timeline entry of a process but
\* its last has length exactly the quantum, and its last entry has length
\* burst_time mod quantum (the quantum when that is 0).
C6_SegmentsExactlyQ ==
    \A r \in RunIds : (Done(r) /\ RoundRobin(r)) =>
        \A i \in 1..Len(Input) :
            LET segs == Segments(Timeline(r), Input[i].p_id)
                q    == frame[r].time_quantum
            IN /\ \A k \in 1..(Len(segs) - 1) : Dur(segs[k]) = q
               /\ segs # <<>>
               /\ Dur(segs[Len(segs)]) = LastSlice(Input[i].burst_time, q)

\* a round_robin step that runs a process (lines 285-324)
RanSlice(r) ==
    /\ frame[r].pc = "rr"
    /\ frame'[r].pc = "rr"
    /\ frame'[r].current_time # frame[r].current_time
    /\ frame'[r].last_gantt_entry[1] # Idle

\* the working copy run by the step
Ran(r) ==
    CHOOSE a \in DOMAIN heap' :
        a > MaxLen /\ heap'[a].p_id = frame'[r].last_gantt_entry[1]

SliceLengths ==
    \A r \in RunIds : RanSlice(r) =>
        LET slice == frame'[r].current_time - frame[r].current_time
            p     == heap'[Ran(r)]
            q     == frame[r].time_quantum
        IN /\ p.remaining_burst_time > 0 => slice = q
           /\ p.remaining_burst_time = 0 => slice = LastSlice(p.burst_time, q)

MergedSegments ==
    \A r \in RunIds : (Done(r) /\ RoundRobin(r)) =>
        \A i \in 1..Len(Input) :
            LET segs == Segments(Timeline(r), Input[i].p_id)
                q    == frame[r].time_quantum
            IN /\ segs # <<>>
               /\ \A k \in 1..(Len(segs) - 1) : Dur(segs[k]) % q = 0
               /\ Dur(segs[Len(segs)]) % q = Input[i].burst_time % q

\* C6 (amended): every slice a process is run for has length exactly the
\* quantum, except its last, of length burst_time mod quantum (the quantum
\* when that is 0); back-to-back slices of one process are one timeline
\* entry, so an entry but the last has a length that is a multiple of the
\* quantum and the last entry one congruent to burst_time modulo the quantum.
C6_SlicesOfQuantum == [][SliceLengths]_vars /\ []MergedSegments

\* a round_robin result whose first entry of some process spans several
\* slices and is not its last
C6_Witness ==
    \E r \in RunIds :
        /\ Done(r)
        /\ RoundRobin(r)
        /\ \E i \in 1..Len(Input) :
              LET segs == Segments(Timeline(r), Input[i].p_id) IN
              /\ Len(segs) >= 2
              /\ Dur(segs[1]) > frame[r].time_quantum

\* C7: a call of the algorithm (and quantum) whose result was recorded first
\* returns that same result (timeline, per-process values, averages),
\* whatever calls were made in between.
C7_SameResultAgain ==
    \A r \in RunIds :
        (Done(r) /\ seen # <<>> /\ SameCall(seen[1], frame[r])) =>
            ResultValue(r) = seen[1].value

\* the recorded call returned again after a different call had returned
C7_Witness ==
    \E r \in RunIds :
        /\ Done(r)
        /\ seen # <<>>
        /\ SameCall(seen[1], frame[r])
        /\ seen[1].others
        /\ Len(processes) >= 2

\* C8: no step of a call, returning or raising, changes the caller's list or
\* a field of a Process object in it.
CallerUntouched ==
    /\ processes' = processes
    /\ \A i \in 1..Len(processes) :
          heap'[processes[i]] = heap[processes[i]]

C8_InputUnchanged == [][CallerUntouched]_vars

\* a call has returned processes with their times set while the caller's
\* objects still hold the initial -1
C8_Witness ==
    \E r \in RunIds :
        /\ Done(r)
        /\ Len(Out(r)) = Len(Input)
        /\ \A i \in 1..Len(Out(r)) : Out(r)[i].completion_time > 0
        /\ \A i \in 1..Len(Input) :
              /\ Input[i].start_time = -1
              /\ Input[i].completion_time = -1
              /\ Input[i].waiting_time = -1
              /\ Input[i].turnaround_time = -1
              /\ Input[i].remaining_burst_time = Input[i].burst_time

Running(r) == frame[r].pc \in {"fcfs", "sjf", "priority", "rr"}

\* every input process is in the result once, with completion_time and the
\* metrics set
AllFinalized(r) ==
    /\ Len(Out(r)) = Len(Input)
    /\ \A i \in 1..Len(Input) :
          \E j \in 1..Len(Out(r)) :
              /\ Out(r)[j].p_id = Input[i].p_id
              /\ Out(r)[j].completion_time >= 0
              /\ Out(r)[j].waiting_time >= 0
              /\ Out(r)[j].turnaround_time >= 0

\* C9: a started call (valid input, quantum > 0) returns, and when it
\* returns every input process has been finalized.
C9_Terminates ==
    /\ \A r \in RunIds : [](Running(r) => <>Done(r))
    /\ [](\A r \in RunIds : Done(r) => AllFinalized(r))

\* a round_robin call that went through an Idle gap and a preemption has
\* returned
C9_Witness ==
    \E r \in RunIds :
        /\ Done(r)
        /\ RoundRobin(r)
        /\ AllFinalized(r)
        /\ Len(Timeline(r)) >= 4
        /\ \E i \in 1..Len(Timeline(r)) : Timeline(r)[i][1] = Idle

\* C10: round_robin called with time_quantum <= 0 raises at once: no frame
\* state, no working copy, no timeline and no result exist afterwards.
C10_QuantumRejected ==
    \A r \in RunIds : (RoundRobin(r) /\ frame[r].time_quantum <= 0) =>
        /\ frame[r] = [IdleFrame EXCEPT !.pc = "raised", !.alg = "rr",
                          !.time_quantum = frame[r].time_quantum]
        /\ result[r] = NoResult
        /\ DOMAIN heap = Range(processes)

\* round_robin was called with a quantum of 0 or less and raised
C10_Witness ==
    \E r \in RunIds :
        /\ RoundRobin(r)
        /\ frame[r].time_quantum <= 0
        /\ frame[r].pc = "raised"

\* C11: for every algorithm, an input that is empty or has a duplicate id, a
\* negative arrival or priority, or a non-positive burst is reported as an
\* error before the simulation begins: the call never gets past its entry
\* and no timeline, metrics or averages are produced.
C11_InvalidInputRejected ==
    InvalidInput(Input) =>
        \A r \in RunIds :
            /\ frame[r].pc \in {"idle", "raised"}
            /\ result[r] = NoResult
            /\ DOMAIN heap = 1..Len(processes)

\* the sum of the returned waiting times
RECURSIVE TotalWaiting(_)
TotalWaiting(out) ==
    IF out = <<>> THEN 0 ELSE Head(out).waiting_time + TotalWaiting(Tail(out))

\* sjf has returned on the list of scenario B
ScenarioBDone(r) ==
    Done(r) /\ frame[r].alg = "sjf" /\ Input = ScenarioProcesses(ScenarioB)

ScenarioBTimeline == << <<1, 0, 8>>, <<2, 8, 12>>, <<4, 12, 17>>, <<3, 17, 26>> >>

\* C12 as stated: sjf on scenario B returns the timeline
\* [(P1,0,8),(P2,8,12),(P4,12,17),(P3,17,26)] and an average waiting time of
\* 6.5 = 13/2, the total waiting being 26 over 4 processes.
C12_ScenarioB_Avg6_5 ==
    \A r \in RunIds : ScenarioBDone(r) =>
        /\ Timeline(r) = ScenarioBTimeline
        /\ 2 * result[r].avg_waiting_time.num
              = 13 * result[r].avg_waiting_time.den
        /\ TotalWaiting(Out(r)) = 26

\* C12, amended: sjf on scenario B returns that timeline, and an average
\* waiting time of 7.75 = 31/4: the waiting times are P1 0, P2 7, P3 15 and
\* P4 9, 31 in total over 4 processes.
C12_ScenarioB ==
    \A r \in RunIds : ScenarioBDone(r) =>
        /\ Timeline(r) = ScenarioBTimeline
        /\ 4 * result[r].avg_waiting_time.num
              = 31 * result[r].avg_waiting_time.den
        /\ result[r].avg_waiting_time.den = 4
        /\ TotalWaiting(Out(r)) = 31
        /\ [i \in 1..Len(Out(r)) |-> Out(r)[i].waiting_time] = <<0, 7, 15, 9>>

\* sjf has returned its result for scenario B
C12_Witness ==
    \E r \in RunIds : ScenarioBDone(r) /\ Len(Timeline(r)) = 4

\* round_robin with quantum 2 has returned on the list of scenario D
ScenarioDDone(r) ==
    /\ Done(r) /\ RoundRobin(r) /\ frame[r].time_quantum = 2
    /\ Input = ScenarioProcesses(ScenarioD)

\* C13: round_robin with quantum 2 on scenario D returns exactly the
\* timeline P1 [0,2), P2 [2,4), P3 [4,5), P1 [5,7), P2 [7,8), P1 [8,9), with
\* completion times P3 = 5, P2 = 8, P1 = 9.
C13_ScenarioD ==
    \A r \in RunIds : ScenarioDDone(r) =>
        /\ Timeline(r) = << <<1, 0, 2>>, <<2, 2, 4>>, <<3, 4, 5>>,
                            <<1, 5, 7>>, <<2, 7, 8>>, <<1, 8, 9>> >>
        /\ [i \in 1..Len(Out(r)) |-> Out(r)[i].p_id] = <<1, 2, 3>>
        /\ [i \in 1..Len(Out(r)) |-> Out(r)[i].completion_time] = <<9, 8, 5>>

\* round_robin with quantum 2 has returned its result for scenario D
C13_Witness ==
    \E r \in RunIds : ScenarioDDone(r) /\ Len(Out(r)) = 3

\* a/b = c/d for the averages kept as fractions
SameAvg(x, y) == x.num * y.den = y.num * x.den

\* the part of a returned tuple v that C14 compares
SameSchedule(v, w) ==
    /\ v.gantt_chart = w.gantt_chart
    /\ SameAvg(v.avg_waiting_time, w.avg_waiting_time)
    /\ SameAvg(v.avg_turnaround_time, w.avg_turnaround_time)
    /\ Len(v.completed_processes) = Len(w.completed_processes)
    /\ \A i \in 1..Len(v.completed_processes) :
          LET p == v.completed_processes[i]
              q == w.completed_processes[i]
          IN /\ p.p_id = q.p_id
             /\ p.start_time = q.start_time
             /\ p.completion_time = q.completion_time
             /\ p.waiting_time = q.waiting_time
             /\ p.turnaround_time = q.turnaround_time

\* call a is round_robin with a quantum >= every burst of the input, and
\* call b is fcfs
DegenerateQuantum(a, b) ==
    /\ a.alg = "rr" /\ b.alg = "fcfs"
    /\ \A i \in 1..Len(Input) : Input[i].burst_time <= a.time_quantum

\* C14: round_robin with quantum >= the maximum burst returns the same
\* timeline, the same per-process start, completion, waiting and turnaround
\* values and the same averages as fcfs on the same input, whichever of the
\* two ran first.
C14_RoundRobinAsFcfs ==
    \A r \in RunIds : (Done(r) /\ seen # <<>>) =>
        ((DegenerateQuantum(frame[r], seen[1])
             \/ DegenerateQuantum(seen[1], frame[r]))
            => SameSchedule(ResultValue(r), seen[1].value))

\* fcfs returned first, then round_robin with a quantum above one burst and
\* equal to the other, for two processes that arrived together after time 0
C14_Witness ==
    \E r \in RunIds :
        /\ Done(r) /\ seen # <<>>
        /\ DegenerateQuantum(frame[r], seen[1])
        /\ Len(Input) = 2
        /\ Input[1].arrival_time = Input[2].arrival_time
        /\ Input[1].arrival_time > 0
        /\ Input[1].burst_time < Input[2].burst_time
        /\ Input[1].p_id > Input[2].p_id

\* the input is one process that arrives at time 0
SingleAtZero == Len(Input) = 1 /\ Input[1].arrival_time = 0

\* C15: for a single process with arrival 0 and any burst > 0, every
\* algorithm (round_robin for every quantum > 0) returns waiting_time 0 and
\* turnaround_time = burst_time for it, and a timeline of the one entry
\* [0, burst_time) of that process.
C15_SingleProcess ==
    \A r \in RunIds : (Done(r) /\ SingleAtZero) =>
        /\ Len(Out(r)) = 1
        /\ Out(r)[1].p_id = Input[1].p_id
        /\ Out(r)[1].waiting_time = 0
        /\ Out(r)[1].turnaround_time = Input[1].burst_time
        /\ Timeline(r) = << <<Input[1].p_id, 0, Input[1].burst_time>> >>

\* round_robin returned for a single process whose burst took two slices
C15_Witness ==
    \E r \in RunIds :
        /\ Done(r) /\ SingleAtZero /\ RoundRobin(r)
        /\ Input[1].burst_time > frame[r].time_quantum
        /\ Len(Timeline(r)) = 1

\* the sum of the returned turnaround times
RECURSIVE TotalTurnaround(_)
TotalTurnaround(out) ==
    IF out = <<>> THEN 0
    ELSE Head(out).turnaround_time + TotalTurnaround(Tail(out))

\* returned object q is the copy of input object p
CopyOf(q, p) ==
    /\ q.p_id = p.p_id
    /\ q.arrival_time = p.arrival_time
    /\ q.burst_time = p.burst_time
    /\ q.priority = p.priority

\* C16: for every algorithm and every valid input, the returned list holds
\* each input process exactly once, in ascending id order, and each returned
\* average times n is the sum of the returned values, n being the number of
\* input processes.
C16_ResultList ==
    \A r \in RunIds : Done(r) =>
        LET out == Out(r)
            n   == Len(Input)
        IN /\ Len(out) = n
           /\ \A i \in 1..n :
                 Cardinality({j \in 1..Len(out) : CopyOf(out[j], Input[i])}) = 1
           /\ \A j \in 1..(Len(out) - 1) : out[j].p_id < out[j + 1].p_id
           /\ result[r].avg_waiting_time.num * n
                 = TotalWaiting(out) * result[r].avg_waiting_time.den
           /\ result[r].avg_turnaround_time.num * n
                 = TotalTurnaround(out) * result[r].avg_turnaround_time.den

\* a result for three processes given in descending id order, the one with
\* the largest id arriving first, with an average waiting time that is not
\* a whole number
C16_Witness ==
    \E r \in RunIds :
        /\ Done(r)
        /\ Len(Input) = 3
        /\ Input[1].p_id = 3
        /\ Input[1].arrival_time < Input[3].arrival_time
        /\ TotalWaiting(Out(r)) % 3 # 0

\* the working copies of run r
Region(r) == {a \in DOMAIN heap : a \div (MaxLen + 1) = r}

\* a step writes the locals, the result and the working copies of run r at
\* most: the caller's objects and everything of the other runs stay as
\* they are
WritesOnly(r) ==
    /\ \A a \in 1..Len(processes) : a \in DOMAIN heap' /\ heap'[a] = heap[a]
    /\ \A o \in ConcRunIds \ {r} :
          /\ frame'[o] = frame[o]
          /\ result'[o] = result[o]
          /\ \A a \in Region(o) : a \in DOMAIN heap' /\ heap'[a] = heap[a]

\* a run returned what the same call returned when it ran alone
ResultAsAlone ==
    \A r \in ConcRunIds :
        (Done(r) /\ seen # <<>> /\ SameCall(seen[1], frame[r]))
            => ResultValue(r) = seen[1].value

\* run r is inside its loop with at least one iteration behind it
MidRun(r) ==
    /\ frame[r].pc \in {"fcfs", "sjf", "priority", "rr"}
    /\ frame[r].gantt_chart # <<>>

\* C17: two runs, of different algorithms or of the same one, interleaved in
\* any order over the same input list each return what the call returns
\* when run alone, and no step of a run writes what belongs to the other
\* run or to the caller.
C17_Interleaved ==
    /\ []ResultAsAlone
    /\ [][\E r \in ConcRunIds : WritesOnly(r)]_vars

\* run 1 has returned, as it did alone, on a list of two processes while
\* run 2 is part-way through another algorithm
C17_Witness ==
    /\ Len(processes) = 2
    /\ seen # <<>>
    /\ Done(1) /\ SameCall(seen[1], frame[1])
    /\ ResultValue(1) = seen[1].value
    /\ MidRun(2) /\ frame[2].alg # frame[1].alg
    /\ Len(frame[2].gantt_chart) < 2

\* triple x comes strictly before triple y, component by component
LexLess(x, y) ==
    \/ x[1] < y[1]
    \/ x[1] = y[1] /\ x[2] < y[2]
    \/ x[1] = y[1] /\ x[2] = y[2] /\ x[3] < y[3]

\* the working copy dispatched last by run r
LastDispatched(r) ==
    frame[r].completed_processes[Len(frame[r].completed_processes)]

\* the not-yet-completed working copies that had arrived when the last
\* dispatch of run r was made
PassedOver(r) ==
    {a \in Range(frame[r].remaining) :
        heap[a].arrival_time <= heap[LastDispatched(r)].start_time}

\* C18: in sjf, at every dispatch the selected process has the smallest
\* burst among the not-yet-completed processes that have arrived; among
\* equal bursts the smallest arrival time, and among equal burst and arrival
\* the smallest id, for every order of the input list.
C18_SjfSelection ==
    \A r \in RunIds :
        (frame[r].pc = "sjf" /\ frame[r].completed_processes # <<>>) =>
            LET p == heap[LastDispatched(r)] IN
            \A a \in PassedOver(r) :
                LexLess(<<p.burst_time, p.arrival_time, p.p_id>>,
                        <<heap[a].burst_time, heap[a].arrival_time,
                          heap[a].p_id>>)

\* C19: in priority_scheduling, at every dispatch the selected process has
\* the smallest priority value among the not-yet-completed processes that
\* have arrived; ties are broken by the smallest arrival time, then by the
\* smallest id, for every order of the input list.
C19_PrioritySelection ==
    \A r \in RunIds :
        (frame[r].pc = "priority" /\ frame[r].completed_processes # <<>>) =>
            LET p == heap[LastDispatched(r)] IN
            \A a \in PassedOver(r) :
                LexLess(<<p.priority, p.arrival_time, p.p_id>>,
                        <<heap[a].priority, heap[a].arrival_time,
                          heap[a].p_id>>)

\* the process at input position i comes before the one at position j in
\* ascending arrival order, equal arrivals in list order
ArrivesBefore(i, j) ==
    \/ Input[i].arrival_time < Input[j].arrival_time
    \/ Input[i].arrival_time = Input[j].arrival_time /\ i < j

\* the returned copy of the process at input position i
ReturnedCopy(r, i) ==
    CHOOSE q \in Range(Out(r)) : q.p_id = Input[i].p_id

\* the place in the timeline of run r where process pid runs
EntryOf(r, pid) ==
    CHOOSE k \in 1..Len(Timeline(r)) : Timeline(r)[k][1] = pid

\* C20: fcfs dispatches the processes in ascending arrival order, equal
\* arrivals in their input-list order: for p before q in that order, p runs
\* earlier in the timeline and completion_time(p) <= start_time(q).
C20_FcfsOrder ==
    \A r \in RunIds : (Done(r) /\ frame[r].alg = "fcfs") =>
        \A i, j \in 1..Len(Input) : ArrivesBefore(i, j) =>
            /\ EntryOf(r, Input[i].p_id) < EntryOf(r, Input[j].p_id)
            /\ ReturnedCopy(r, i).completion_time <= ReturnedCopy(r, j).start_time

\* fcfs returned for three processes of which two arrived together, the one
\* with the larger id first in the list, after the CPU had been idle
C20_Witness ==
    \E r \in RunIds :
        /\ Done(r) /\ frame[r].alg = "fcfs"
        /\ Len(Input) = 3
        /\ Input[1].arrival_time = Input[2].arrival_time
        /\ Input[1].p_id > Input[2].p_id
        /\ Input[3].arrival_time < Input[1].arrival_time
        /\ Timeline(r)[1][1] = Idle

\* a round_robin step whose slice ends without finishing the process run
Preempted(r) == RanSlice(r) /\ heap'[Ran(r)].remaining_burst_time > 0

\* the place of a in the queue q
PosIn(q, a) == CHOOSE k \in 1..Len(q) : q[k] = a

\* after a slice of run r that ends at time t without finishing its
\* process: that process is last in the ready queue; every process with
\* arrival_time <= t is in the queue unless it has completed, and no other
\* is; the processes that joined the queue stand behind those that were
\* waiting already, in arrival order
EnqueuedAhead(r) ==
    LET t   == frame'[r].current_time
        q   == frame[r].ready_queue
        q1  == frame'[r].ready_queue
        p   == Ran(r)
        new == {a \in Range(q1) : a \notin Range(q) /\ a # p}
    IN /\ q1 # <<>> /\ q1[Len(q1)] = p
       /\ \A a \in Range(frame[r].process_list) :
             (a \in Range(q1)
                 \/ a \in DictValues(frame'[r].completed_processes_dict))
               <=> heap'[a].arrival_time <= t
       /\ \A k, l \in 1..Len(q1) : k # l => q1[k] # q1[l]
       /\ \A a \in new : \A b \in Range(q) \ {p} : PosIn(q1, b) < PosIn(q1, a)
       /\ \A a, b \in new :
             PosIn(q1, a) < PosIn(q1, b)
                 => heap'[a].arrival_time <= heap'[b].arrival_time

\* C21: in round_robin, when a slice ends at time t without finishing the
\* running process, every not-yet-enqueued process with arrival_time <= t,
\* one arriving exactly at t included, is placed in the ready queue in
\* arrival order ahead of the preempted process, which goes to the back.
C21_ArrivalsBeforePreempted ==
    [][\A r \in RunIds : Preempted(r) => EnqueuedAhead(r)]_vars

\* a preempted process stands behind a process that arrived exactly when its
\* slice ended
C21_Witness ==
    \E r \in RunIds :
        /\ frame[r].pc = "rr"
        /\ Len(frame[r].ready_queue) >= 2
        /\ LET q == frame[r].ready_queue
               p == heap[q[Len(q)]]
           IN /\ p.remaining_burst_time > 0
              /\ p.remaining_burst_time < p.burst_time
              /\ frame[r].last_gantt_entry[1] = p.p_id
              /\ heap[q[Len(q) - 1]].arrival_time = frame[r].current_time
              /\ heap[q[Len(q) - 1]].start_time = -1

\* the timeline of run r so far, or the one it returned
Chart(r) == IF Done(r) THEN result[r].gantt_chart ELSE frame[r].gantt_chart

\* working copy a has been finalized
Completed(a) == heap[a].completion_time # -1

\* where run r keeps the processes still to be dispatched
Waiting(r) ==
    Range(frame[r].ready_queue) \cup Range(frame[r].remaining)
        \cup (IF frame[r].pc = "fcfs" THEN Range(frame[r].process_list) ELSE {})

\* no entry of a process starts before its arrival; a completed process
\* waits nowhere and has no entry after its completion; a returned run has
\* completed every process
Lifecycle ==
    \A r \in RunIds : \A a \in Region(r) :
        /\ \A k \in 1..Len(Chart(r)) : Chart(r)[k][1] = heap[a].p_id =>
              /\ heap[a].arrival_time <= Chart(r)[k][2]
              /\ Completed(a) => Chart(r)[k][3] <= heap[a].completion_time
        /\ Completed(a) => a \notin Waiting(r)
        /\ Done(r) => Completed(a)

\* a step leaves a completed process as it is, and completes a process only
\* at the end of the entry it has just run in
Absorbing ==
    \A r \in RunIds : \A a \in Region(r) :
        /\ Completed(a) => heap'[a] = heap[a]
        /\ (~Completed(a) /\ heap'[a].completion_time # -1) =>
              LET g == frame'[r].gantt_chart
              IN /\ g # <<>>
                 /\ g[Len(g)][1] = heap[a].p_id
                 /\ g[Len(g)][3] = heap'[a].completion_time
                 /\ a \notin Range(frame'[r].ready_queue)
                 /\ a \notin Range(frame'[r].remaining)

\* C22: in every algorithm each process goes Unarrived -> Ready -> Running
\* -> (Ready, round_robin only | Completed): no timeline entry of a process
\* starts before its arrival, a process is finalized exactly once, and once
\* Completed it never enters the ready set or queue again and occupies no
\* later timeline entry.
C22_Lifecycle == []Lifecycle /\ [][Absorbing]_vars

\* round_robin with one process completed while a preempted one and one
\* that has not run yet wait in the ready queue
C22_Witness ==
    \E r \in RunIds :
        /\ frame[r].pc = "rr"
        /\ \E a \in Region(r) : Completed(a)
        /\ \E a \in Range(frame[r].ready_queue) :
              heap[a].remaining_burst_time < heap[a].burst_time
        /\ \E a \in Range(frame[r].ready_queue) : heap[a].start_time = -1

\* the working copies run r has put in the ready queue so far
Enqueued(r) ==
    {frame[r].process_list[i] : i \in 1..frame[r].process_idx}

\* remaining_burst_time of every enqueued process is within 0..burst_time
\* and burst_time less the CPU time its timeline entries add up to; a
\* process in the ready queue has some left; a process is completed exactly
\* when it has none left
BurstAccounting ==
    \A r \in RunIds : frame[r].pc = "rr" =>
        \A a \in Enqueued(r) :
            LET p == heap[a] IN
            /\ 0 <= p.remaining_burst_time
            /\ p.remaining_burst_time <= p.burst_time
            /\ p.burst_time - p.remaining_burst_time
                  = TotalDur(Segments(frame[r].gantt_chart, p.p_id))
            /\ a \in Range(frame[r].ready_queue) => p.remaining_burst_time > 0
            /\ Completed(a) <=> p.remaining_burst_time = 0

\* the slice that brings remaining_burst_time to 0 finalizes the process,
\* with completion_time the time at the end of that slice
FinalizedAtZero ==
    \A r \in RunIds : RanSlice(r) =>
        LET p == heap'[Ran(r)] IN
        p.remaining_burst_time = 0 =>
            /\ heap[Ran(r)].completion_time = -1
            /\ p.completion_time = frame'[r].current_time
            /\ p.completion_time = frame[r].current_time
                  + heap[Ran(r)].remaining_burst_time

\* C23: in every reachable state of round_robin, each enqueued process has
\* 0 <= remaining burst <= burst, burst - remaining burst is the CPU time it
\* has received in the timeline so far, every process in the ready queue has
\* remaining burst > 0, and a process is finalized exactly at the end of the
\* slice that brings its remaining burst to 0, with completion_time the
\* current time at that moment.
C23_RemainingBurst == []BurstAccounting /\ [][FinalizedAtZero]_vars

\* a process that has run two separate slices and waits for its third,
\* another process having completed between them
C23_Witness ==
    \E r \in RunIds :
        /\ frame[r].pc = "rr"
        /\ \E a \in Range(frame[r].ready_queue) :
              /\ heap[a].remaining_burst_time > 0
              /\ Len(Segments(frame[r].gantt_chart, heap[a].p_id)) = 2
        /\ \E a \in Enqueued(r) : Completed(a)

\* the arrival times of the returned processes not completed at time s
PendingArrivals(r, s) ==
    {Out(r)[i].arrival_time :
        i \in {j \in 1..Len(Out(r)) : Out(r)[j].completion_time > s}}

\* C24: in every algorithm the CPU is idle only when nothing can run: for
\* every Idle entry [s, e) of the timeline, every process with
\* arrival_time < e has completion_time <= s, e is the smallest arrival_time
\* among the processes not completed at s, and s < e.
C24_IdleOnlyWhenNothingReady ==
    \A r \in RunIds : Done(r) =>
        \A k \in 1..Len(Timeline(r)) : Timeline(r)[k][1] = Idle =>
            LET s == Timeline(r)[k][2]
                e == Timeline(r)[k][3]
            IN /\ s < e
               /\ \A i \in 1..Len(Out(r)) :
                     Out(r)[i].arrival_time < e
                         => Out(r)[i].completion_time <= s
               /\ PendingArrivals(r, s) # {}
               /\ e = Min(PendingArrivals(r, s))

\* a timeline with an Idle entry between the entries of two processes, the
\* later of which shares its arrival time with a third
C24_Witness ==
    \E r \in RunIds :
        /\ Done(r)
        /\ \E k \in 2..Len(Timeline(r)) : Timeline(r)[k][1] = Idle
        /\ Len(Input) = 3
        /\ Input[2].arrival_time = Input[3].arrival_time

\* C25: for every valid input and every algorithm,
\* completion_time - arrival_time - burst_time >= 0 for every process, so
\* the clamp of waiting_time to 0 changes no computed value: waiting_time is
\* turnaround_time - burst_time as computed.
C25_ClampNeverApplies ==
    \A r \in RunIds : \A a \in Region(r) : Completed(a) =>
        LET p == heap[a] IN
        /\ p.completion_time - p.arrival_time - p.burst_time >= 0
        /\ p.waiting_time = p.completion_time - p.arrival_time - p.burst_time
        /\ p.waiting_time = p.turnaround_time - p.burst_time

\* round_robin has completed a process that arrived after time 0 and did
\* not wait, while another that has waited is still to complete
C25_Witness ==
    \E r \in RunIds :
        /\ frame[r].pc = "rr"
        /\ \E a \in Region(r) :
              /\ Completed(a)
              /\ heap[a].arrival_time > 0
              /\ heap[a].completion_time
                    = heap[a].arrival_time + heap[a].burst_time
        /\ \E a \in Range(frame[r].ready_queue) :
              heap[a].remaining_burst_time < heap[a].burst_time

\* the times at which round_robin admits and requeues: time 0 and the end
\* of every timeline entry
Boundaries(g) == {0} \cup {g[k][3] : k \in 1..Len(g)}

\* when the queued working copy a of run r entered the ready queue: at the
\* end of its last slice if it has run, else at the first admission at or
\* after its arrival
EnteredAt(r, a) ==
    LET g == frame[r].gantt_chart
        s == Segments(g, heap[a].p_id)
    IN IF s # <<>> THEN s[Len(s)][3]
       ELSE Min({b \in Boundaries(g) : b >= heap[a].arrival_time})

\* a step that puts a in the ready queue does so at the time EnteredAt
\* gives from then on
EnteredAtRight ==
    \A r \in RunIds : (frame[r].pc = "rr" /\ frame'[r].pc = "rr") =>
        \A a \in Range(frame'[r].ready_queue) :
            LET now  == frame[r].current_time
                then == frame'[r].current_time
                at   == EnteredAt(r, a)'
            IN IF a \in Range(frame[r].ready_queue)
                    /\ heap'[a] = heap[a]
               THEN at = EnteredAt(r, a)
               ELSE IF heap'[a].start_time = -1
                       /\ heap'[a].arrival_time <= now
               THEN at = now
               ELSE at = then

\* while a waits in the ready queue every other process has at most one
\* timeline entry that starts after a entered, of at most one quantum, and
\* a has waited at most (n - 1) * time_quantum
FifoBound ==
    \A r \in RunIds : frame[r].pc = "rr" =>
        \A a \in Range(frame[r].ready_queue) :
            LET g == frame[r].gantt_chart
                since == {k \in 1..Len(g) : g[k][2] >= EnteredAt(r, a)}
            IN /\ \A k \in since :
                     /\ g[k][1] # heap[a].p_id
                     /\ g[k][1] # Idle
                     /\ Dur(g[k]) <= frame[r].time_quantum
                     /\ \A l \in since : g[l][1] = g[k][1] => l = k
               /\ frame[r].current_time - EnteredAt(r, a)
                     <= (frame[r].n - 1) * frame[r].time_quantum

\* C26: in round_robin, between the moment a process enters the ready queue
\* (on arrival or after preemption) and its next dispatch no other process
\* is dispatched more than once; so a queued process is dispatched after at
\* most (number of processes - 1) * Q time units of waiting.
C26_BoundedWaiting == []FifoBound /\ [][EnteredAtRight]_vars

\* the process at the head of the ready queue of three processes has
\* waited two whole quanta of 2
C26_Witness ==
    \E r \in RunIds :
        /\ frame[r].pc = "rr"
        /\ frame[r].n = 3
        /\ frame[r].time_quantum = 2
        /\ frame[r].ready_queue # <<>>
        /\ frame[r].current_time - EnteredAt(r, Head(frame[r].ready_queue)) = 4

\* in a returned result: under fcfs, sjf and priority_scheduling the one
\* timeline entry of each process runs from its start_time to its
\* completion_time = start_time + burst_time, and it waited from its
\* arrival to its start; under round_robin start_time is the start of the
\* first entry of the process
StartTimes ==
    \A r \in RunIds : Done(r) =>
        \A i \in 1..Len(Out(r)) :
            LET p == Out(r)[i]
                s == Segments(Timeline(r), p.p_id)
            IN /\ s # <<>>
               /\ p.start_time = s[1][2]
               /\ NonPreemptive(r) =>
                     /\ s = << <<p.p_id, p.start_time, p.completion_time>> >>
                     /\ p.completion_time = p.start_time + p.burst_time
                     /\ p.waiting_time = p.start_time - p.arrival_time

\* a step changes no start_time that has been set
StartTimeKept ==
    \A r \in RunIds : \A a \in Region(r) :
        heap[a].start_time # -1 => heap'[a].start_time = heap[a].start_time

\* C27: under fcfs, sjf and priority_scheduling, for every process,
\* start_time is the start of its timeline entry, completion_time =
\* start_time + burst_time and waiting_time = start_time - arrival_time;
\* under round_robin start_time is the start of the first timeline segment
\* of the process and later slices do not change it.
C27_StartTime == []StartTimes /\ [][StartTimeKept]_vars

\* round_robin returned a process that started after it arrived and ran in
\* two separate segments
C27_Witness ==
    \E r \in RunIds :
        /\ Done(r) /\ RoundRobin(r)
        /\ \E i \in 1..Len(Out(r)) :
              /\ Out(r)[i].start_time > Out(r)[i].arrival_time
              /\ Len(Segments(Timeline(r), Out(r)[i].p_id)) = 2
====
